---- MODULE Spec2Model ----
(***************************************************************************)
(* brago: the bracket pattern (acquire, use, release) of src/brago.go.     *)
(*                                                                         *)
(* One behaviour is a caller making up to MaxCalls calls in sequence, each *)
(* of one entry point (Bracket, WithResource, or the infallible-release    *)
(* forms), over the same acquire and use closures.  A call is unfolded     *)
(* into the steps of Bracket: every callback invocation and every callback *)
(* return is one step and is recorded in `calls`.                          *)
(***************************************************************************)
EXTENDS Integers, Sequences, FiniteSets, TLC

VARIABLES
    fn,        \* the entry point of the current call
    acquire,   \* the acquire closure: what acquire() does
    use,       \* the use closure: what use(r) does
    release,   \* the release closure Bracket was given
    pc,        \* the current call's control point
    r,         \* Bracket's local r
    err,       \* Bracket's local err
    cerr,      \* what release(r) returned to Bracket
    ret,       \* the value the call returned
    calls,     \* the callback events of the current call, in order
    ncall,     \* how many calls the caller has started
    prev,      \* the summary of the caller's previous call
    invs,      \* the concurrent invocations of Bracket (ConcSpec)
    frames     \* the locals r, err, cerr of each call frame (ConcSpec)

vars == <<fn, acquire, use, release, pc, r, err, cerr, ret, calls, ncall, prev, invs, frames>>

----------------------------------------------------------------------------
(* Bounds *)

\* resources are numbered 1..MaxRes
MaxRes == 2
\* the caller makes at most MaxCalls calls
MaxCalls == 2
\* ConcSpec runs NumInv invocations of Bracket concurrently
NumInv == 2

----------------------------------------------------------------------------
(* Go error values *)

\* the nil error
Nil == [kind |-> "nil"]

\* an ordinary error value, identified by its message
Leaf(m) == [kind |-> "leaf", msg |-> m]

EA == Leaf("EA")
E1 == Leaf("E1")
E2 == Leaf("E2")
E3 == Leaf("E3")

\* the non-nil members of a sequence of errors, in order
RECURSIVE NonNil(_)
NonNil(es) ==
    IF es = <<>> THEN <<>>
    ELSE IF Head(es) = Nil THEN NonNil(Tail(es))
    ELSE <<Head(es)>> \o NonNil(Tail(es))

\* errors.Join(a, b): nil arguments are dropped, nil if none is left, else
\* an error that wraps the rest in order (nothing is flattened)
Join(a, b) ==
    IF NonNil(<<a, b>>) = <<>> THEN Nil
    ELSE [kind |-> "join", errs |-> NonNil(<<a, b>>)]

\* the errors e wraps directly: e.Unwrap() []error
Unwrap(e) == IF e.kind = "join" THEN e.errs ELSE <<>>

\* errors.Is(e, target): target is e or is found in the tree e wraps
RECURSIVE Is(_, _)
Is(e, target) ==
    \/ e = target
    \/ \E i \in 1..Len(Unwrap(e)) : Is(Unwrap(e)[i], target)

----------------------------------------------------------------------------
(* Resources and closures *)

\* a resource: its identity and what its Close() returns
Resources == [id : 1..MaxRes, closeErr : {Nil, E3}]

\* the zero value of R
ZeroRes == [id |-> 0, closeErr |-> Nil]

\* r.Close()
Close(res) == res.closeErr

\* what a callback does when invoked: return a value and an error, or panic
Outcome(res, e, p) == [r |-> res, err |-> e, panics |-> p]

\* the acquire closures: success with a resource, failure (with or without
\* a resource value beside the error), or a panic
AcquireFns ==
    {Outcome(res, Nil, FALSE) : res \in Resources}
    \cup {Outcome(ZeroRes, EA, FALSE),
          Outcome([id |-> 1, closeErr |-> Nil], EA, FALSE),
          Outcome(ZeroRes, Nil, TRUE)}

\* the use closures, by what their body does
UseFns == {"ok", "fail", "failJoin", "panic"}

\* use(res)
ApplyUse(u, res) ==
    CASE u = "ok"       -> Outcome(ZeroRes, Nil, FALSE)
      [] u = "fail"     -> Outcome(ZeroRes, E1, FALSE)
      [] u = "failJoin" -> Outcome(ZeroRes, Join(E1, EA), FALSE)
      [] u = "panic"    -> Outcome(ZeroRes, Nil, TRUE)

\* the bodies of the release closures a caller writes
ReleaseBodies == {"ok", "fail", "failSame", "close", "panic"}

\* a release closure: its body, and whether it is wrapped by the
\* infallible-release adapter
ReleaseFn(body, wrapped) == [body |-> body, wrapped |-> wrapped]

\* no release closure (the entry point takes none)
NoRelease == ReleaseFn("none", FALSE)

\* what the body of a release closure does on res ("failSame" fails with
\* the very error value use fails with)
ApplyBody(body, res) ==
    CASE body = "ok"    -> Outcome(ZeroRes, Nil, FALSE)
      [] body = "fail"  -> Outcome(ZeroRes, E2, FALSE)
      [] body = "failSame" -> Outcome(ZeroRes, E1, FALSE)
      [] body = "close" -> Outcome(ZeroRes, Close(res), FALSE)
      [] body = "panic" -> Outcome(ZeroRes, Nil, TRUE)

\* the adapter of the infallible-release forms:
\* func(r R) error { release(r); return nil }
AlwaysSucceeds(out) == [out EXCEPT !.err = Nil]

\* release(res), as Bracket sees it
ApplyRelease(rel, res) ==
    IF rel.wrapped THEN AlwaysSucceeds(ApplyBody(rel.body, res))
    ELSE ApplyBody(rel.body, res)

\* WithResource's release closure, which closes nothing
CloserReleaseNoop == ReleaseFn("ok", FALSE)

\* WithResource's release closure: func(r R) error { return r.Close() }
CloserRelease == ReleaseFn("close", FALSE)

\* the entry points
Fns == {"Bracket", "WithResource", "BracketInfallible", "WithResourceInfallible"}

\* the wrappers of package os: WithOpen, WithCreate, WithOpenFile
FileFns == {"WithOpen", "WithCreate", "WithOpenFile"}

\* what func() (*os.File, error) { return os.Open(name) } can do (and the
\* same for os.Create, os.OpenFile): an open file and a nil error, or a
\* nil file and an error
OpenFns ==
    {Outcome(res, Nil, FALSE) : res \in Resources}
    \cup {Outcome(ZeroRes, EA, FALSE)}

\* the entry points a caller can call with acquire closure acq: the file
\* wrappers build their acquire closure from os.Open, os.Create, os.OpenFile
EntryPoints(acq) == Fns \cup (IF acq \in OpenFns THEN FileFns ELSE {})

\* the release closures a caller can pass to entry point f
ReleaseArgs(f) ==
    IF f \in {"Bracket", "BracketInfallible"}
    THEN {ReleaseFn(b, FALSE) : b \in ReleaseBodies}
    ELSE {NoRelease}

----------------------------------------------------------------------------
(* Callback events *)

Event(op, ev, res) == [op |-> op, ev |-> ev, arg |-> res]

\* the indices of the events of callback op that are of kind ev
EventsAt(tr, op, ev) == {i \in 1..Len(tr) : tr[i].op = op /\ tr[i].ev = ev}

\* how many times callback op was invoked
Invocations(tr, op) == Cardinality(EventsAt(tr, op, "call"))

----------------------------------------------------------------------------
(* Bracket, lines 177-195 *)

\* the control points at which a call has ended
Terminal == {"Failed", "Done", "Panicked"}

\* lines 179-181, with the test of acquire's error left out
AfterAcquireUnchecked(e) == "Acquired"

\* lines 179-181: if err != nil { return err }
AfterAcquire(e) == IF e # Nil THEN "Failed" ELSE "Acquired"

\* line 180, wrapping the error it returns
FailedResultWrapped(e) == Join(e, Nil)

\* line 180: return err
FailedResult(e) == e

\* line 183, returning at once when use failed
AfterUseLeak(e) == IF e # Nil THEN "Done" ELSE "UseOk"

\* line 183, calling use again when it failed
AfterUseRetry(e) == IF e # Nil THEN "Acquired" ELSE "UseOk"

\* line 183: if err = use(r); err != nil
AfterUse(e) == IF e # Nil THEN "UseFailed" ELSE "UseOk"

\* lines 183-194 with the release error of the failed-use path dropped
BracketResultDropRelease(e, ce) == IF e # Nil THEN e ELSE ce

\* lines 183-194 with the release error of the successful-use path dropped
BracketResultSwallow(e, ce) ==
    IF e # Nil THEN (IF ce # Nil THEN Join(e, ce) ELSE e) ELSE Nil

\* lines 183-194 joining on the failed-use path without testing cerr
BracketResultAlwaysJoin(e, ce) == IF e # Nil THEN Join(e, ce) ELSE ce

\* lines 183-194 joining the release error before the use error
BracketResultSwapped(e, ce) ==
    IF e # Nil THEN (IF ce # Nil THEN Join(ce, e) ELSE e) ELSE ce

\* lines 183-194: what Bracket returns once release has returned ce,
\* use having returned e
BracketResult(e, ce) ==
    IF e # Nil
    THEN (IF ce # Nil THEN Join(e, ce) ELSE e)
    ELSE ce

\* the argument of use on line 183
UseArg(res) == res

\* the argument of release, were it a fresh zero value and not r
ReleaseArgZero(res) == ZeroRes

\* the argument of release on lines 185 and 194
ReleaseArg(res) == res

Init ==
    /\ acquire \in AcquireFns
    /\ fn \in EntryPoints(acquire)
    /\ use \in UseFns
    /\ release \in ReleaseArgs(fn)
    /\ pc = "Entry"
    /\ r = ZeroRes
    /\ err = Nil
    /\ cerr = Nil
    /\ ret = Nil
    /\ calls = <<>>
    /\ ncall = 1
    /\ prev = [fn |-> "none"]
    /\ invs = <<>>
    /\ frames = <<>>

\* the caller calls Bracket(acquire, release, use)
CallBracket ==
    /\ pc = "Entry" /\ fn = "Bracket"
    /\ pc' = "Start"
    /\ UNCHANGED <<fn, acquire, use, release, r, err, cerr, ret, calls, ncall, prev, invs, frames>>

\* the caller calls WithResource(acquire, use), which calls Bracket with
\* the release closure that closes the resource
CallWithResource ==
    /\ pc = "Entry" /\ fn = "WithResource"
    /\ release' = CloserRelease
    /\ pc' = "Start"
    /\ UNCHANGED <<fn, acquire, use, r, err, cerr, ret, calls, ncall, prev, invs, frames>>

\* os.WithOpen(name, use): WithResource over os.Open(name)
CallWithOpen ==
    /\ pc = "Entry" /\ fn = "WithOpen"
    /\ release' = CloserRelease
    /\ pc' = "Start"
    /\ UNCHANGED <<fn, acquire, use, r, err, cerr, ret, calls, ncall, prev, invs, frames>>

\* os.WithCreate(name, use): WithResource over os.Create(name)
CallWithCreate ==
    /\ pc = "Entry" /\ fn = "WithCreate"
    /\ release' = CloserRelease
    /\ pc' = "Start"
    /\ UNCHANGED <<fn, acquire, use, r, err, cerr, ret, calls, ncall, prev, invs, frames>>

\* os.WithOpenFile(name, flag, perm, use): WithResource over
\* os.OpenFile(name, flag, perm)
CallWithOpenFile ==
    /\ pc = "Entry" /\ fn = "WithOpenFile"
    /\ release' = CloserRelease
    /\ pc' = "Start"
    /\ UNCHANGED <<fn, acquire, use, r, err, cerr, ret, calls, ncall, prev, invs, frames>>

\* the infallible-release adapter, passing the body's error on
WrapPassThrough(rel) == rel

\* the infallible-release forms hand Bracket the release closure wrapped
\* to report success once its body has run
Wrap(rel) == [rel EXCEPT !.wrapped = TRUE]

\* the caller calls the infallible-release form of Bracket, which calls
\* Bracket with the wrapped release closure
CallBracketInfallible ==
    /\ pc = "Entry" /\ fn = "BracketInfallible"
    /\ release' = Wrap(release)
    /\ pc' = "Start"
    /\ UNCHANGED <<fn, acquire, use, r, err, cerr, ret, calls, ncall, prev, invs, frames>>

\* the caller calls the infallible-release form of WithResource, which
\* calls the infallible-release form of Bracket with the closure that
\* closes the resource
CallWithResourceInfallible ==
    /\ pc = "Entry" /\ fn = "WithResourceInfallible"
    /\ release' = Wrap(CloserRelease)
    /\ pc' = "Start"
    /\ UNCHANGED <<fn, acquire, use, r, err, cerr, ret, calls, ncall, prev, invs, frames>>

\* line 178: acquire is invoked
AcquireCall ==
    /\ pc = "Start"
    /\ calls' = Append(calls, Event("acquire", "call", ZeroRes))
    /\ pc' = "Acquiring"
    /\ UNCHANGED <<fn, acquire, use, release, r, err, cerr, ret, ncall, prev, invs, frames>>

\* lines 178-181: acquire returns
AcquireReturn ==
    /\ pc = "Acquiring" /\ ~acquire.panics
    /\ r' = acquire.r
    /\ err' = acquire.err
    /\ calls' = Append(calls, Event("acquire", "ret", acquire.r))
    /\ pc' = AfterAcquire(acquire.err)
    /\ ret' = IF AfterAcquire(acquire.err) = "Failed"
              THEN FailedResult(acquire.err) ELSE ret
    /\ UNCHANGED <<fn, acquire, use, release, cerr, ncall, prev, invs, frames>>

\* line 178: acquire panics, and the panic leaves Bracket
AcquirePanic ==
    /\ pc = "Acquiring" /\ acquire.panics
    /\ calls' = Append(calls, Event("acquire", "panic", ZeroRes))
    /\ pc' = "Panicked"
    /\ UNCHANGED <<fn, acquire, use, release, r, err, cerr, ret, ncall, prev, invs, frames>>

\* line 183: use is invoked
UseCall ==
    /\ pc = "Acquired"
    /\ calls' = Append(calls, Event("use", "call", UseArg(r)))
    /\ pc' = "Using"
    /\ UNCHANGED <<fn, acquire, use, release, r, err, cerr, ret, ncall, prev, invs, frames>>

\* line 183: use returns
UseReturn ==
    /\ pc = "Using" /\ ~ApplyUse(use, UseArg(r)).panics
    /\ err' = ApplyUse(use, UseArg(r)).err
    /\ calls' = Append(calls, Event("use", "ret", UseArg(r)))
    /\ pc' = AfterUse(err')
    /\ UNCHANGED <<fn, acquire, use, release, r, cerr, ret, ncall, prev, invs, frames>>

\* line 183: use panics; Bracket has no deferred call, the panic leaves it
UsePanic ==
    /\ pc = "Using" /\ ApplyUse(use, UseArg(r)).panics
    /\ calls' = Append(calls, Event("use", "panic", UseArg(r)))
    /\ pc' = "Panicked"
    /\ UNCHANGED <<fn, acquire, use, release, r, err, cerr, ret, ncall, prev, invs, frames>>

\* lines 185 and 194: release is invoked
ReleaseCall ==
    /\ pc \in {"UseOk", "UseFailed"}
    /\ calls' = Append(calls, Event("release", "call", ReleaseArg(r)))
    /\ pc' = "Releasing"
    /\ UNCHANGED <<fn, acquire, use, release, r, err, cerr, ret, ncall, prev, invs, frames>>

\* lines 185-194: release returns, and Bracket returns
ReleaseReturn ==
    /\ pc = "Releasing" /\ ~ApplyRelease(release, ReleaseArg(r)).panics
    /\ cerr' = ApplyRelease(release, ReleaseArg(r)).err
    /\ calls' = Append(calls, Event("release", "ret", ReleaseArg(r)))
    /\ ret' = BracketResult(err, cerr')
    /\ pc' = "Done"
    /\ UNCHANGED <<fn, acquire, use, release, r, err, ncall, prev, invs, frames>>

\* lines 185 and 194: release panics, and the panic leaves Bracket
ReleasePanic ==
    /\ pc = "Releasing" /\ ApplyRelease(release, ReleaseArg(r)).panics
    /\ calls' = Append(calls, Event("release", "panic", ReleaseArg(r)))
    /\ pc' = "Panicked"
    /\ UNCHANGED <<fn, acquire, use, release, r, err, cerr, ret, ncall, prev, invs, frames>>

\* the call has ended; the caller makes another one, of any entry point,
\* with the same acquire and use
NextCall ==
    /\ pc \in Terminal /\ ncall < MaxCalls
    /\ prev' = [fn |-> fn, release |-> release, pc |-> pc, ret |-> ret, calls |-> calls]
    /\ fn' \in EntryPoints(acquire)
    /\ release' \in ReleaseArgs(fn')
    /\ pc' = "Entry"
    /\ r' = ZeroRes /\ err' = Nil /\ cerr' = Nil /\ ret' = Nil
    /\ calls' = <<>>
    /\ ncall' = ncall + 1
    /\ UNCHANGED <<acquire, use, invs, frames>>

Next ==
    \/ CallBracket
    \/ CallWithResource
    \/ CallBracketInfallible
    \/ CallWithResourceInfallible
    \/ CallWithOpen
    \/ CallWithCreate
    \/ CallWithOpenFile
    \/ AcquireCall
    \/ AcquireReturn
    \/ AcquirePanic
    \/ UseCall
    \/ UseReturn
    \/ UsePanic
    \/ ReleaseCall
    \/ ReleaseReturn
    \/ ReleasePanic
    \/ NextCall

Spec == Init /\ [][Next]_vars

\* a call that can take a step takes it: Bracket runs on its caller's
\* thread and does not suspend itself
FairSpec == Spec /\ WF_vars(Next)

----------------------------------------------------------------------------
(* Concurrent invocations of Bracket, each over its own resource and its   *)
(* own callbacks; a step of ConcSpec is one step of one invocation.        *)

\* the invocations
Invs == 1..NumInv

\* the locals of every invocation kept in one place, as a package-level
\* variable would be
FrameShared(i) == 1

\* the call frame that holds the locals r, err, cerr of invocation i:
\* its own (r and err are declared by := on line 178)
Frame(i) == i

\* the resource invocation i acquires
OwnResource(i) == [id |-> i, closeErr |-> E3]

\* the callbacks of invocation i: acquire succeeds with the invocation's
\* own resource or fails; use and release return nil or an error
ConcConfigs(i) ==
    [acquire : {Outcome(OwnResource(i), Nil, FALSE), Outcome(ZeroRes, EA, FALSE)},
     use : {"ok", "fail"},
     release : {ReleaseFn(b, FALSE) : b \in {"ok", "fail", "close"}}]

\* the locals of a frame before line 178
EmptyFrame == [r |-> ZeroRes, err |-> Nil, cerr |-> Nil]

\* invocation i as called with callbacks c
Started(c) ==
    [acquire |-> c.acquire, use |-> c.use, release |-> c.release,
     pc |-> "Start", ret |-> Nil, calls |-> <<>>]

ConcInit ==
    /\ invs \in {f \in [Invs -> UNION {{Started(c) : c \in ConcConfigs(i)} : i \in Invs}] :
                    \A i \in Invs : f[i].acquire \in {c.acquire : c \in ConcConfigs(i)}}
    /\ frames = [f \in Invs |-> EmptyFrame]
    /\ fn = "Bracket"
    /\ acquire = Outcome(ZeroRes, EA, FALSE)
    /\ use = "ok"
    /\ release = NoRelease
    /\ pc = "Concurrent"
    /\ r = ZeroRes
    /\ err = Nil
    /\ cerr = Nil
    /\ ret = Nil
    /\ calls = <<>>
    /\ ncall = 0
    /\ prev = [fn |-> "none"]

\* the variables of the sequential caller, which ConcSpec leaves alone
seqVars == <<fn, acquire, use, release, pc, r, err, cerr, ret, calls, ncall, prev>>

\* invocation i, line 178: acquire is invoked
ConcAcquireCall(i) ==
    /\ invs[i].pc = "Start"
    /\ invs' = [invs EXCEPT ![i].calls = Append(@, Event("acquire", "call", ZeroRes)),
                            ![i].pc = "Acquiring"]
    /\ UNCHANGED <<frames, seqVars>>

\* invocation i, lines 178-181: acquire returns
ConcAcquireReturn(i) ==
    /\ invs[i].pc = "Acquiring"
    /\ frames' = [frames EXCEPT ![Frame(i)].r = invs[i].acquire.r,
                                ![Frame(i)].err = invs[i].acquire.err]
    /\ invs' = [invs EXCEPT
          ![i].calls = Append(@, Event("acquire", "ret", invs[i].acquire.r)),
          ![i].pc = AfterAcquire(invs[i].acquire.err),
          ![i].ret = IF AfterAcquire(invs[i].acquire.err) = "Failed"
                     THEN FailedResult(invs[i].acquire.err) ELSE @]
    /\ UNCHANGED seqVars

\* invocation i, line 183: use is invoked
ConcUseCall(i) ==
    /\ invs[i].pc = "Acquired"
    /\ invs' = [invs EXCEPT
          ![i].calls = Append(@, Event("use", "call", UseArg(frames[Frame(i)].r))),
          ![i].pc = "Using"]
    /\ UNCHANGED <<frames, seqVars>>

\* invocation i, line 183: use returns
ConcUseReturn(i) ==
    /\ invs[i].pc = "Using"
    /\ frames' = [frames EXCEPT
          ![Frame(i)].err = ApplyUse(invs[i].use, UseArg(frames[Frame(i)].r)).err]
    /\ invs' = [invs EXCEPT
          ![i].calls = Append(@, Event("use", "ret", UseArg(frames[Frame(i)].r))),
          ![i].pc = AfterUse(frames'[Frame(i)].err)]
    /\ UNCHANGED seqVars

\* invocation i, lines 185 and 194: release is invoked
ConcReleaseCall(i) ==
    /\ invs[i].pc \in {"UseOk", "UseFailed"}
    /\ invs' = [invs EXCEPT
          ![i].calls = Append(@, Event("release", "call", ReleaseArg(frames[Frame(i)].r))),
          ![i].pc = "Releasing"]
    /\ UNCHANGED <<frames, seqVars>>

\* invocation i, lines 185-194: release returns, and Bracket returns
ConcReleaseReturn(i) ==
    /\ invs[i].pc = "Releasing"
    /\ frames' = [frames EXCEPT
          ![Frame(i)].cerr =
              ApplyRelease(invs[i].release, ReleaseArg(frames[Frame(i)].r)).err]
    /\ invs' = [invs EXCEPT
          ![i].calls = Append(@, Event("release", "ret", ReleaseArg(frames[Frame(i)].r))),
          ![i].ret = BracketResult(frames[Frame(i)].err, frames'[Frame(i)].cerr),
          ![i].pc = "Done"]
    /\ UNCHANGED seqVars

ConcNext ==
    \/ \E i \in Invs : ConcAcquireCall(i)
    \/ \E i \in Invs : ConcAcquireReturn(i)
    \/ \E i \in Invs : ConcUseCall(i)
    \/ \E i \in Invs : ConcUseReturn(i)
    \/ \E i \in Invs : ConcReleaseCall(i)
    \/ \E i \in Invs : ConcReleaseReturn(i)

ConcSpec == ConcInit /\ [][ConcNext]_vars

----------------------------------------------------------------------------
(* What a call's callbacks did, as the caller observes it *)

\* acquire returned without an error
AcquireSucceeded ==
    EventsAt(calls, "acquire", "ret") # {} /\ acquire.err = Nil

\* acquire returned an error
AcquireFailed ==
    EventsAt(calls, "acquire", "ret") # {} /\ acquire.err # Nil

\* the call returned to its caller (it did not end by a panic)
Returned == pc \in {"Failed", "Done"}

\* the error use returns on the acquired resource
UseErr == ApplyUse(use, acquire.r).err

\* the error the release closure Bracket was given returns on the
\* acquired resource
RelErr == ApplyRelease(release, acquire.r).err

\* the release closure that is the resource's own close capability C
CloseCapability == ReleaseFn("close", FALSE)

----------------------------------------------------------------------------
(* Claims *)

\* C1: in every call in which acquire succeeds and use returns (success or
\* failure), release is invoked exactly once, after use has returned,
\* whatever release itself then does; release is never invoked twice and
\* never before use has returned.
C1_ReleaseExactlyOnceAfterUse ==
    /\ \A i \in EventsAt(calls, "release", "call") :
          \E j \in EventsAt(calls, "use", "ret") : j < i
    /\ Invocations(calls, "release") <= 1
    /\ (pc \in {"UseOk", "UseFailed"}) => Invocations(calls, "release") = 0
    /\ (Returned /\ AcquireSucceeded) => Invocations(calls, "release") = 1

\* C1 witness: a call returned after use failed and release failed, with
\* one release invocation placed after the return of use.
C1_Witness ==
    /\ pc = "Done" /\ AcquireSucceeded
    /\ UseErr # Nil /\ RelErr # Nil
    /\ Invocations(calls, "release") = 1
    /\ Len(calls) = 6 /\ calls[4].op = "use" /\ calls[5].op = "release"

\* C2: when acquire fails, use and release are never invoked and the call
\* returns exactly the error acquire returned.
C2_AcquireFailureVerbatim ==
    AcquireFailed =>
        /\ Invocations(calls, "use") = 0
        /\ Invocations(calls, "release") = 0
        /\ pc = "Failed"
        /\ ret = acquire.err

\* C2 witness: acquire returned EA (beside a resource value), and the call
\* returned EA with only acquire invoked.
C2_Witness ==
    /\ pc = "Failed" /\ ret = EA
    /\ acquire.r # ZeroRes
    /\ Len(calls) = 2

\* C3: when use fails with E1 and release fails with E2, the call returns
\* a combined error from which both are recoverable (errors.Is) and whose
\* parts, in order, are the use failure then the release failure.
C3_BothFailuresExposed ==
    (pc = "Done" /\ UseErr # Nil /\ RelErr # Nil) =>
        /\ Is(ret, UseErr)
        /\ Is(ret, RelErr)
        /\ ret # UseErr /\ ret # RelErr
        /\ Unwrap(ret) = <<UseErr, RelErr>>

\* C3 witness: use returned E1, release returned E2, and the call returned
\* the join of E1 and E2.
C3_Witness ==
    /\ pc = "Done" /\ fn = "Bracket"
    /\ UseErr = E1 /\ RelErr = E2
    /\ ret = Join(E1, E2)

\* C4: when use succeeds, the call returns exactly what release returned:
\* nil, or the release failure itself.
C4_UseOkReturnsReleaseOutcome ==
    (pc = "Done" /\ UseErr = Nil) => ret = RelErr

\* C4 witness: use succeeded, release returned E2, and the call returned E2.
C4_Witness ==
    /\ pc = "Done" /\ use = "ok"
    /\ RelErr = E2 /\ ret = E2

\* C5: when use fails and release succeeds, release was invoked and the
\* call returns the use failure itself.
C5_UseFailureAlone ==
    (pc = "Done" /\ UseErr # Nil /\ RelErr = Nil) =>
        /\ Invocations(calls, "release") = 1
        /\ ret = UseErr

\* C5 witness: use returned E1, release returned nil, the call returned E1.
C5_Witness ==
    /\ pc = "Done" /\ use = "fail" /\ RelErr = Nil
    /\ ret = E1
    /\ EventsAt(calls, "release", "ret") # {}

\* C6: there is no call in which acquire succeeded, use was entered, the
\* call ended, and release was never invoked.
C6_ReleaseRunsOnAbnormalExit ==
    ~ /\ AcquireSucceeded
      /\ Invocations(calls, "use") = 1
      /\ pc \in Terminal
      /\ Invocations(calls, "release") = 0

\* C7: when release is invoked and returns a failure, the call returns a
\* failure from which the release failure is recoverable: the release
\* failure itself when use succeeded, a combination that has it as a part
\* when use failed.
C7_ReleaseFailureNeverSwallowed ==
    (pc = "Done" /\ RelErr # Nil) =>
        /\ ret # Nil
        /\ Is(ret, RelErr)
        /\ (UseErr = Nil) => ret = RelErr
        /\ (UseErr # Nil) =>
              /\ ret.kind = "join"
              /\ \E i \in 1..Len(Unwrap(ret)) : Unwrap(ret)[i] = RelErr

\* C7 witness: through WithResource, use failed and Close returned E3; E3
\* is recoverable from what the call returned.
C7_Witness ==
    /\ pc = "Done" /\ fn = "WithResource"
    /\ UseErr # Nil /\ RelErr = E3
    /\ Is(ret, E3)

\* the call before the current one and the current one are
\* WithResource(acquire, use) and Bracket(acquire, C, use), in either order
WithResourceAndBracket ==
    \/ /\ prev.fn = "WithResource"
       /\ fn = "Bracket" /\ release = CloseCapability
    \/ /\ prev.fn = "Bracket" /\ prev.release = CloseCapability
       /\ fn = "WithResource"

\* C8: WithResource(acquire, use) and Bracket(acquire, release = C, use),
\* C the resource's close capability, end the same way with the same
\* outcome and the same sequence of callback events.
C8_WithResourceIsBracketWithClose ==
    (pc \in Terminal /\ prev.fn # "none" /\ WithResourceAndBracket) =>
        /\ prev.pc = pc
        /\ prev.ret = ret
        /\ prev.calls = calls

\* C8 witness: WithResource, then Bracket with release = C, both over a
\* failing use and a resource whose Close fails; both returned the join.
C8_Witness ==
    /\ pc = "Done" /\ prev.fn = "WithResource"
    /\ fn = "Bracket" /\ release = CloseCapability
    /\ ret = Join(E1, E3)
    /\ Len(calls) = 6

\* the current call is of an infallible-release form
Infallible == fn \in {"BracketInfallible", "WithResourceInfallible"}

\* C9: an infallible-release call runs Bracket over the wrapped release
\* closure; when it returns after a successful acquire, release was
\* invoked exactly once and the outcome is nil or the use failure alone,
\* never a release failure or a combination.
C9_InfallibleNeverReportsRelease ==
    /\ (Infallible /\ pc # "Entry") => release.wrapped
    /\ (Infallible /\ pc = "Done") =>
          /\ Invocations(calls, "release") = 1
          /\ ret = UseErr
          /\ cerr = Nil

\* C9 witness: the infallible WithResource over a resource whose close
\* fails inside and a failing use returned the use failure alone.
C9_Witness ==
    /\ pc = "Done" /\ fn = "WithResourceInfallible"
    /\ acquire.r.closeErr = E3
    /\ UseErr = E1 /\ ret = E1
    /\ Invocations(calls, "release") = 1

\* (a) the acquisition failure, unmodified
ShapeAcquire == pc = "Failed" /\ ret = acquire.err

\* (b) the use failure alone, release having succeeded
ShapeUseAlone ==
    pc = "Done" /\ UseErr # Nil /\ RelErr = Nil /\ ret = UseErr

\* (c) the combined use and release failure
ShapeCombined ==
    /\ pc = "Done" /\ UseErr # Nil /\ RelErr # Nil
    /\ Unwrap(ret) = <<UseErr, RelErr>>

\* (d) the release failure alone, use having succeeded
ShapeReleaseAlone ==
    pc = "Done" /\ UseErr = Nil /\ RelErr # Nil /\ ret = RelErr

\* C10 as stated: every failure a call returns has one of the three
\* shapes (a), (b), (c).
C10_ThreeFailureShapes ==
    (Returned /\ ret # Nil) =>
        ShapeAcquire \/ ShapeUseAlone \/ ShapeCombined

\* C10 as amended: every failure a call returns has one of the four shapes
\* (a), (b), (c), (d), and the shape is the one its callbacks' outcomes
\* select.
C10_FourFailureShapes ==
    /\ (Returned /\ ret # Nil) =>
          ShapeAcquire \/ ShapeUseAlone \/ ShapeCombined \/ ShapeReleaseAlone
    /\ (pc = "Done" /\ UseErr # Nil /\ RelErr = Nil) => ShapeUseAlone
    /\ (pc = "Done" /\ UseErr # Nil /\ RelErr # Nil) => ShapeCombined
    /\ (pc = "Done" /\ UseErr = Nil /\ RelErr # Nil) => ShapeReleaseAlone

\* C10 witness: a call returned a failure of shape (d).
C10_Witness ==
    /\ ShapeReleaseAlone /\ ret # Nil
    /\ fn = "Bracket" /\ release.body = "fail"

\* the current call is of a file wrapper
FileCall == fn \in FileFns

\* C11: through WithOpen, WithCreate and WithOpenFile, a failed open means
\* neither use nor Close (the release closure is r.Close()) is ever called
\* and the open error is returned; a successful open followed by the
\* return of use means Close was called exactly once, on the opened file,
\* after use returned, and a Close error is part of what the caller gets.
C11_FileWrappersCloseOnce ==
    (FileCall /\ pc # "Entry") =>
        /\ release = CloseCapability
        /\ AcquireFailed =>
              /\ Invocations(calls, "use") = 0
              /\ Invocations(calls, "release") = 0
              /\ pc = "Failed" /\ ret = acquire.err
        /\ \A i \in EventsAt(calls, "release", "call") :
              /\ calls[i].arg = acquire.r /\ acquire.r \in Resources
              /\ \E j \in EventsAt(calls, "use", "ret") : j < i
        /\ (Returned /\ AcquireSucceeded) =>
              /\ Invocations(calls, "release") = 1
              /\ (Close(acquire.r) # Nil) =>
                    (ret # Nil /\ Is(ret, Close(acquire.r)))

\* C11 witness: WithOpen opened file 2, use succeeded, Close returned E3,
\* and WithOpen returned E3.
C11_Witness ==
    /\ pc = "Done" /\ fn = "WithOpen"
    /\ acquire.r.id = 2 /\ use = "ok"
    /\ ret = E3
    /\ Invocations(calls, "release") = 1

\* the error invocation i's use returns on its own resource
ConcUseErr(i) == ApplyUse(invs[i].use, invs[i].acquire.r).err

\* the error invocation i's release returns on its own resource
ConcRelErr(i) == ApplyRelease(invs[i].release, invs[i].acquire.r).err

\* invocation i kept the per-invocation guarantees so far: use and release
\* got its own acquired resource only; release at most once and after its
\* own use returned; once it has returned, release ran exactly once iff
\* its own acquire succeeded, and the outcome is the one its own
\* callbacks' outcomes select
ConcGuarantees(i) ==
    LET c == invs[i].calls
        acqOk == invs[i].acquire.err = Nil
    IN  /\ \A k \in 1..Len(c) :
              c[k].op \in {"use", "release"} =>
                  (acqOk /\ c[k].arg = invs[i].acquire.r)
        /\ Invocations(c, "acquire") <= 1
        /\ Invocations(c, "use") <= 1
        /\ Invocations(c, "release") <= 1
        /\ \A k \in EventsAt(c, "release", "call") :
              \E j \in EventsAt(c, "use", "ret") : j < k
        /\ (invs[i].pc \in {"Failed", "Done"}) =>
              /\ Invocations(c, "release") = (IF acqOk THEN 1 ELSE 0)
              /\ Invocations(c, "use") = (IF acqOk THEN 1 ELSE 0)
              /\ (invs[i].pc = "Done") <=> acqOk
        /\ (invs[i].pc = "Failed") => invs[i].ret = invs[i].acquire.err
        /\ (invs[i].pc = "Done") =>
              /\ (ConcUseErr(i) = Nil) => invs[i].ret = ConcRelErr(i)
              /\ (ConcUseErr(i) # Nil /\ ConcRelErr(i) = Nil) =>
                    invs[i].ret = ConcUseErr(i)
              /\ (ConcUseErr(i) # Nil /\ ConcRelErr(i) # Nil) =>
                    Unwrap(invs[i].ret) = <<ConcUseErr(i), ConcRelErr(i)>>

\* C12: under every interleaving of the steps of concurrent invocations,
\* each invocation keeps the per-invocation guarantees and no invocation
\* passes another invocation's resource to use or release.
C12_ConcurrentInvocationsIndependent ==
    \A i \in Invs :
        /\ ConcGuarantees(i)
        /\ \A j \in Invs \ {i} : \A k \in 1..Len(invs[i].calls) :
              invs[i].calls[k].arg # OwnResource(j)

\* C12 witness: both invocations hold their resource at the same time,
\* the first with its use failed and its release pending, the second
\* inside its release; each frame holds the invocation's own resource.
C12_Witness ==
    /\ invs[1].pc = "UseFailed" /\ invs[2].pc = "Releasing"
    /\ invs[2].use = "ok" /\ invs[2].release.body = "close"
    /\ frames[Frame(1)].r = OwnResource(1) /\ frames[Frame(2)].r = OwnResource(2)
    /\ frames[Frame(1)].err = E1 /\ frames[Frame(2)].err = Nil

\* C13: within one call nothing is retried: acquire is invoked exactly
\* once and before anything else, use at most once and only after acquire
\* succeeded (exactly once then), release at most once.
C13_NoRetries ==
    /\ Invocations(calls, "acquire") <= 1
    /\ Invocations(calls, "use") <= 1
    /\ Invocations(calls, "release") <= 1
    /\ (pc \notin {"Entry", "Start"}) =>
          /\ Invocations(calls, "acquire") = 1
          /\ calls[1] = Event("acquire", "call", ZeroRes)
    /\ (Invocations(calls, "use") = 1) => AcquireSucceeded
    /\ (AcquireSucceeded /\ pc # "Acquired") => Invocations(calls, "use") = 1
    /\ \A op \in {"acquire", "use", "release"} :
          Cardinality(EventsAt(calls, op, "ret")) <= 1

\* C13 witness: a call returned in which acquire succeeded and both use
\* and release failed, each of the three invoked once.
C13_Witness ==
    /\ pc = "Done" /\ use = "failJoin" /\ RelErr = E2
    /\ Invocations(calls, "acquire") = 1
    /\ Invocations(calls, "use") = 1
    /\ Invocations(calls, "release") = 1

\* every callback the call gets to invoke returns (none panics)
CallbacksReturn ==
    /\ ~acquire.panics
    /\ (acquire.err = Nil) =>
          /\ ~ApplyUse(use, acquire.r).panics
          /\ ~ApplyRelease(release, acquire.r).panics

\* the position of a control point on the path of a call
Rank(p) ==
    CASE p = "Entry" -> 0
      [] p = "Start" -> 1
      [] p = "Acquiring" -> 2
      [] p \in {"Failed", "Acquired"} -> 3
      [] p = "Using" -> 4
      [] p \in {"UseOk", "UseFailed"} -> 5
      [] p = "Releasing" -> 6
      [] p = "Done" -> 7
      [] p = "Panicked" -> 8

\* the transitions of the state machine of a call
PathEdges ==
    {<<"Start", "Acquiring">>,
     <<"Acquiring", "Failed">>, <<"Acquiring", "Acquired">>,
     <<"Acquired", "Using">>,
     <<"Using", "UseOk">>, <<"Using", "UseFailed">>,
     <<"UseOk", "Releasing">>, <<"UseFailed", "Releasing">>,
     <<"Releasing", "Done">>}

\* the callback running at the current control point panics
RunningPanics ==
    \/ pc = "Acquiring" /\ acquire.panics
    \/ pc = "Using" /\ ApplyUse(use, acquire.r).panics
    \/ pc = "Releasing" /\ ApplyRelease(release, acquire.r).panics

\* a step of the model follows the state machine: it is the caller
\* entering Bracket, an edge of the state machine, a panic leaving a
\* callback that panics, or, from a terminal state only, the caller
\* starting a new call; within a call the control point only moves forward
PathStep ==
    /\ \/ pc = "Entry" /\ pc' = "Start"
       \/ <<pc, pc'>> \in PathEdges /\ ~RunningPanics
       \/ pc' = "Panicked" /\ RunningPanics
       \/ pc \in Terminal /\ pc' = "Entry" /\ ncall' = ncall + 1
             /\ calls' = <<>>
    /\ (pc' # "Entry") => (Rank(pc') > Rank(pc) /\ ncall' = ncall)

\* C14: provided its callbacks return, every call that starts reaches
\* Failed (acquire failed) or Done; every step follows Start -> Acquiring
\* -> {Failed | Acquired}, Acquired -> Using -> {UseOk | UseFailed} ->
\* Releasing -> Done, no control point is entered twice in a call, and a
\* call takes no step from a terminal state.
C14_CallTerminatesAlongStateMachine ==
    /\ [][PathStep]_vars
    /\ (pc = "Start" /\ CallbacksReturn) ~> (pc \in {"Failed", "Done"})
    /\ [](pc = "Failed" => AcquireFailed)

\* C14 witness: the caller's second call reached Done through all six
\* callback events, after a first call that reached Done too.
C14_Witness ==
    /\ pc = "Done" /\ Len(calls) = 6
    /\ prev.fn # "none" /\ prev.pc = "Done"
    /\ ncall = 2

\* C15: whenever acquire succeeded with resource r, every invocation of
\* use and of release gets exactly r, the value acquire returned, and r is
\* still that value when the call ends.
C15_SameResourceToUseAndRelease ==
    /\ \A i \in 1..Len(calls) :
          calls[i].op \in {"use", "release"} =>
              (AcquireSucceeded /\ calls[i].arg = acquire.r)
    /\ (AcquireSucceeded /\ pc \in Terminal) => r = acquire.r
    /\ (pc \in {"Using", "UseOk", "UseFailed"}) =>
          EventsAt(calls, "use", "call") # {}
    /\ (pc \in {"Releasing", "Done"}) =>
          EventsAt(calls, "release", "call") # {}

\* C15 witness: acquire returned resource 2 (whose Close fails), and both
\* use and release were invoked with it.
C15_Witness ==
    /\ pc = "Done" /\ acquire.r = [id |-> 2, closeErr |-> E3]
    /\ calls[3] = Event("use", "call", acquire.r)
    /\ calls[5] = Event("release", "call", acquire.r)

\* acquire, use and release were all invoked and all returned nil
AllSucceeded ==
    /\ Invocations(calls, "acquire") = 1 /\ AcquireSucceeded
    /\ EventsAt(calls, "use", "ret") # {} /\ UseErr = Nil
    /\ EventsAt(calls, "release", "ret") # {} /\ RelErr = Nil

\* C16: a call that returns returns nil if and only if acquire, use and
\* release were all invoked and all succeeded; so a failure of any
\* callback that ran makes the outcome a failure, and a nil outcome means
\* release ran on the acquired resource.
C16_NilIffAllSucceeded ==
    Returned =>
        /\ (ret = Nil) <=> AllSucceeded
        /\ (ret = Nil) =>
              \E i \in EventsAt(calls, "release", "ret") : calls[i].arg = acquire.r

\* C16 witness: a call returned nil after all three callbacks ran and
\* succeeded.
C16_Witness ==
    /\ pc = "Done" /\ ret = Nil /\ AllSucceeded
    /\ fn = "Bracket" /\ release.body = "ok"
    /\ Len(calls) = 6

====
